---- MODULE Spec2Model ----
(***************************************************************************)
(* GillWindSonic (src/sonic_2d.py): the line validator, record parser,     *)
(* coordinate transform and aggregation of get_sonic_data, and the         *)
(* dataset writer sonic_netcdf.                                            *)
(*                                                                         *)
(* Bytes are integers 0..255; decoding as ISO-8859-1 maps a byte to the    *)
(* code point of the same number, so a decoded line is the same sequence.  *)
(* A float is a record [nan, neg, mag]: sign and magnitude are kept apart  *)
(* so that -0.0 and +0.0 differ, as they do for arctan2.  Wind components  *)
(* and speeds are in hundredths of m/s, angles in thousandths of a degree. *)
(***************************************************************************)
EXTENDS Integers, Sequences, FiniteSets, TLC

\* ------------------------------------------------------------------ bounds
MaxFiles == 2
MaxLines == 2

\* ------------------------------------------------------------- byte values
STX == 2
ETX == 3
LF == 10
FrameLen == 77
HalfTurn == 180000
FullTurn == 360000

COMMA == <<44>>
Marker == <<32, STX, 81>>
StatusTail == <<77, 44, 48, 48, 44, ETX>>

okchars ==
    {48, 49, 50, 51, 52, 53, 54, 55, 56, 57, 58, 32, LF,
     85, 84, 67, 81, 77, 43, 44, 46, 45, STX, ETX}

\* ---------------------------------------------------------------- floats
Float(neg, mag) == [nan |-> FALSE, neg |-> neg, mag |-> mag]
NaN == [nan |-> TRUE, neg |-> FALSE, mag |-> 0]

\* unary minus of line 83: flips the sign bit, of zero too
Neg(x) == IF x.nan THEN NaN ELSE Float(~x.neg, x.mag)

\* the integer square root of n, known to lie in lo..hi
RECURSIVE Isqrt(_, _, _)
Isqrt(n, lo, hi) ==
    IF lo >= hi THEN lo
    ELSE LET mid == (lo + hi + 1) \div 2
         IN  IF mid * mid <= n THEN Isqrt(n, mid, hi) ELSE Isqrt(n, lo, mid - 1)

\* np.hypot, truncated to hundredths
Hypot(x, y) ==
    IF x.nan \/ y.nan THEN NaN
    ELSE Float(FALSE, Isqrt(x.mag * x.mag + y.mag * y.mag, 0, x.mag + y.mag))

\* arctan of my/mx for my, mx >= 0, in thousandths of a degree
QuadAngle(my, mx) ==
    CASE my = 0 -> 0
      [] my > 0 /\ mx = 0 -> 90000
      [] my > 0 /\ my = mx -> 45000
      [] my > 0 /\ 2 * my = mx -> 26565
      [] mx > 0 /\ my = 2 * mx -> 63435

\* 180.0 * np.arctan2(y, x) / np.pi, with IEEE signed zeros:
\* x negative (or -0.0) reflects the angle about 90, y negative (or -0.0)
\* negates it
Atan2Deg(y, x) ==
    IF x.nan \/ y.nan THEN NaN
    ELSE LET q == QuadAngle(y.mag, x.mag)
             a == IF x.neg THEN HalfTurn - q ELSE q
         IN  Float(y.neg, a)

Positive(t) == ~t.nan /\ ~t.neg /\ t.mag > 0

\* theta + 360
AddTurn(t) ==
    IF t.nan THEN NaN
    ELSE IF t.neg THEN Float(FALSE, FullTurn - t.mag)
    ELSE Float(FALSE, t.mag + FullTurn)

\* theta.where(theta > 0, theta + 360): keeps theta where the condition
\* holds, takes theta + 360 elsewhere (NaN > 0 is false, NaN + 360 is NaN)
Normtheta(theta) == IF Positive(theta) THEN theta ELSE AddTurn(theta)

\* GillWindSonic.polar(x, y, deg=True) on one element
polar(x, y) == [r |-> Hypot(x, y), theta |-> Normtheta(Atan2Deg(y, x))]

\* ------------------------------------------------------- raw serial lines
SysDate == <<50, 48, 49, 55, 45, 48, 56, 45, 51, 48, 32, 48, 49, 58, 49, 55, 58, 53, 49>>
UTC == <<85, 84, 67>>
DevTs == <<50, 48, 49, 55, 45, 48, 56, 45, 51, 48, 84, 48, 49, 58, 49, 55, 58, 53, 50, 46, 57, 48, 54, 56, 51>>
plus0 == <<43, 48, 48, 48, 46, 48, 48>>
minus0 == <<45, 48, 48, 48, 46, 48, 48>>
plus1 == <<43, 48, 48, 49, 46, 48, 48>>
minus1 == <<45, 48, 48, 49, 46, 48, 48>>
plus2 == <<43, 48, 48, 50, 46, 48, 48>>
minus2 == <<45, 48, 48, 50, 46, 48, 48>>
garbled == <<43, 48, 58, 49, 46, 48, 48>>
status00 == <<48, 48>>
status01 == <<48, 49>>

\* the dataline of the docstring: system date, zone, reading timestamp
\* (last digit ts), framing, the two axis readings, unit, status, end
Frame(ts, mark, a, b, st, end) ==
    SysDate \o COMMA \o UTC \o COMMA \o DevTs \o <<ts>> \o mark \o COMMA
      \o a \o COMMA \o b \o COMMA \o <<77>> \o COMMA \o st \o COMMA \o end

Good(ts, a, b) == Frame(ts, Marker, a, b, status00, <<ETX, LF>>)

\* the lines a file may hold; every one has its only LF, if any, last
SampleLines ==
    << Good(56, minus1, plus0),
       Good(56, plus0, plus0),
       Good(56, minus0, plus0),
       Good(57, minus1, minus2),
       Frame(56, <<49, 50, 51>>, plus1, plus2, status00, <<ETX, LF>>),
       Frame(56, Marker, plus1, plus1, status00, <<ETX, 48>>),
       Tail(Good(56, plus1, plus1)),
       Frame(56, Marker, plus1, plus1, status01, <<ETX, LF>>),
       <<211>> \o Tail(Good(56, plus1, plus1)),
       <<50>> \o Good(56, plus1, plus1),
       Frame(56, Marker, plus1, plus1, status00, <<48, LF>>),
       Good(56, garbled, plus1) >>

LineIds == 1..Len(SampleLines)

Terminated(line) == Len(line) > 0 /\ line[Len(line)] = LF

\* ---------------------------------------------------------- line validator
\* the validator without its length test
AcceptAnyLength(line) ==
    /\ Len(line) >= Len(StatusTail) + 1
    /\ SubSeq(line, Len(line) - 6, Len(line) - 1) = StatusTail
    /\ \A i \in 1..Len(line) : line[i] \in okchars

\* line 75: len(line) == 77 and line[-7:-1] == b'M,00,\x03' and
\* all(c in okchars for c in line_dec)
Accept(line) ==
    /\ Len(line) = FrameLen
    /\ SubSeq(line, Len(line) - 6, Len(line) - 1) = StatusTail
    /\ \A i \in 1..Len(line) : line[i] \in okchars

\* the places where old occurs in s
Occurrences(s, old) ==
    {i \in 1..(Len(s) - Len(old) + 1) : SubSeq(s, i, i + Len(old) - 1) = old}

Least(S) == CHOOSE i \in S : \A j \in S : i <= j

\* str.replace(old, ''): every non-overlapping occurrence, left to right
RECURSIVE Remove(_, _)
Remove(s, old) ==
    IF Occurrences(s, old) = {} THEN s
    ELSE LET k == Least(Occurrences(s, old))
         IN  SubSeq(s, 1, k - 1) \o Remove(SubSeq(s, k + Len(old), Len(s)), old)

\* the write without the replace
CleanedKeepsMarker(line) == line

\* line 76: what memory_file.write appends for an accepted line
Cleaned(line) == Remove(line, Marker)

\* lines 75-76: the buffer after the loop body has seen one line
WriteLine(buffer, line) == IF Accept(line) THEN buffer \o Cleaned(line) ELSE buffer

\* ------------------------------------------------------------ record parser
\* s split on every occurrence of the byte sep
RECURSIVE Split(_, _)
Split(s, sep) ==
    LET at == {i \in 1..Len(s) : s[i] = sep} IN
    IF at = {} THEN <<s>>
    ELSE <<SubSeq(s, 1, Least(at) - 1)>> \o Split(SubSeq(s, Least(at) + 1, Len(s)), sep)

\* the records of the buffer: LF ends a record, blank records are skipped
Records(buffer) == SelectSeq(Split(buffer, LF), LAMBDA rec : rec # <<>>)

\* column i (from 0) of a record; a record with too few fields is padded
Column(rec, i) ==
    LET f == Split(rec, 44) IN IF i + 1 <= Len(f) THEN f[i + 1] ELSE <<>>

IsDigit(c) == c \in 48..57

RECURSIVE DigitsVal(_)
DigitsVal(d) ==
    IF d = <<>> THEN 0 ELSE 10 * DigitsVal(SubSeq(d, 1, Len(d) - 1)) + (d[Len(d)] - 48)

Unsigned(t) == IF t # <<>> /\ t[1] \in {43, 45} THEN Tail(t) ELSE t

\* the missing-value markers a field made of allowed bytes can match:
\* the empty field (a pandas default) and the 'M' and 'O-acute' of na_values
IsNA(t) == t \in {<<>>, <<77>>, <<211>>}

\* a signed decimal: sign, digits, at most one point, at least one digit
IsDecimal(t) ==
    LET u == Unsigned(t) IN
    /\ \E i \in 1..Len(u) : IsDigit(u[i])
    /\ \A i \in 1..Len(u) : IsDigit(u[i]) \/ u[i] = 46
    /\ Cardinality({i \in 1..Len(u) : u[i] = 46}) <= 1

\* the float64 of a decimal field, in hundredths (further digits dropped)
ToFloat(t) ==
    IF IsNA(t) THEN NaN
    ELSE LET u == Unsigned(t)
             p == Split(u, 46)
             frac == IF Len(p) > 1 THEN p[2] \o <<48, 48>> ELSE <<48, 48>>
         IN  Float(t[1] = 45, 100 * DigitsVal(p[1]) + DigitsVal(SubSeq(frac, 1, 2)))

\* usecols=[2,3,4], names=['DateTime','UGILL','VGILL']
ParsedRow(rec) ==
    [DateTime |-> Column(rec, 2),
     UGILL |-> ToFloat(Column(rec, 3)),
     VGILL |-> ToFloat(Column(rec, 4))]

Convertible(rec) ==
    /\ IsNA(Column(rec, 3)) \/ IsDecimal(Column(rec, 3))
    /\ IsNA(Column(rec, 4)) \/ IsDecimal(Column(rec, 4))

MapSeq(s, Op(_)) == [i \in 1..Len(s) |-> Op(s[i])]

\* line 81 on a buffer that holds at least one record: dtype float64
\* raises ValueError for a field that is no number
read_csv(buffer) ==
    LET recs == Records(buffer) IN
    IF \A i \in 1..Len(recs) : Convertible(recs[i])
    THEN [ok |-> TRUE, rows |-> MapSeq(recs, ParsedRow)]
    ELSE [ok |-> FALSE, rows |-> <<>>]

\* ------------------------------------------------- coordinate transformer
\* the first axis taken over without its sign change
AxisUNotInverted(row) == row.UGILL

\* lines 83-84
AxisU(row) == Neg(row.UGILL)
AxisV(row) == row.VGILL

\* lines 83-88 on one row of sonic_in
Transformed(row) ==
    LET u == AxisU(row)
        v == AxisV(row)
        p == polar(u, v)
    IN  [DateTime |-> row.DateTime, UGILL |-> row.UGILL, VGILL |-> row.VGILL,
         U |-> u, V |-> v, r |-> p.r, theta |-> p.theta]

\* the concatenation with its operands swapped
ConcatSwapped(sonic, sonic_in) == sonic_in \o sonic

\* the columns of sonic_in after lines 81-88
ParsedColumns == {"UGILL", "VGILL", "U", "V", "r", "theta"}

\* line 92: pd.concat([sonic, sonic_in])
Concat(sonic, sonic_in) == sonic \o sonic_in

\* ------------------------------------------------------------ dataset writer
\* days from 1970-01-01 to the civil date y-m-d
DaysFromCivil(y, m, d) ==
    LET yy == IF m <= 2 THEN y - 1 ELSE y
        era == yy \div 400
        yoe == yy - era * 400
        mp == (m + 9) % 12
        doy == (153 * mp + 2) \div 5 + d - 1
        doe == yoe * 365 + yoe \div 4 - yoe \div 100 + doy
    IN  era * 146097 + doe - 719468

\* line 141: (index - base_time).total_seconds() of one parsed timestamp
\* 'YYYY-MM-DDTHH:MM:SS.ffffff...', as whole seconds and microseconds
TimeOffset(t) ==
    LET n(i, j) == DigitsVal(SubSeq(t, i, j))
    IN  [sec |-> DaysFromCivil(n(1, 4), n(6, 7), n(9, 10)) * 86400
                   + n(12, 13) * 3600 + n(15, 16) * 60 + n(18, 19),
         micro |-> n(21, 26)]

Column_of(sonic, Op(_)) == [i \in 1..Len(sonic) |-> Op(sonic[i])]

LatKey == "platform_latitude"
LonKey == "platform_longitude"

\* dict.pop(key, None)
Pop(d, key) == [k \in DOMAIN d \ {key} |-> d[k]]

\* the site metadata files the constructor may have loaded
FullMetadata == [k \in {LatKey, LonKey, "creator_name"} |->
                    CASE k = LatKey -> "51.14" [] k = LonKey -> "-1.44" [] OTHER -> "ncas"]
MetadataChoices == {FullMetadata, Pop(FullMetadata, LatKey), Pop(FullMetadata, LonKey)}

NoDataset == [state |-> "none", vars |-> <<>>, attrs |-> <<>>]

\* lines 134-167: the dataset just opened, with its time variable written
Opened(sonic) ==
    [state |-> "open",
     vars |-> [v \in {"time"} |-> Column_of(sonic, LAMBDA row : TimeOffset(row.DateTime))],
     attrs |-> <<>>]

\* a variable assignment tempvar[name][:] = values, or longitudes[:] = [x]
WithVar(ds, name, values) ==
    [ds EXCEPT !.vars = [v \in DOMAIN ds.vars \cup {name} |->
                            IF v = name THEN values ELSE ds.vars[v]]]

\* lines 180-185
WithPolar(ds, sonic) ==
    WithVar(WithVar(ds, "wind_speed", Column_of(sonic, LAMBDA row : row.r)),
            "wind_from_direction", Column_of(sonic, LAMBDA row : row.theta))

\* lines 186-191
WithCartesian(ds, sonic) ==
    WithVar(WithVar(ds, "eastward_wind", Column_of(sonic, LAMBDA row : row.U)),
            "northward_wind", Column_of(sonic, LAMBDA row : row.V))

\* strftime('%Y-%m-%dT%H:%M:%S') of a parsed timestamp: second precision
Seconds(t) == SubSeq(t, 1, 19)

\* lines 194-201 then 208: the fixed attributes, then every remaining
\* metadata pair
WithAttrs(ds, sonic, md) ==
    [ds EXCEPT !.attrs =
        [k \in {"institution", "title", "time_coverage_start", "time_coverage_end"}
                 \cup DOMAIN md |->
            IF k \in DOMAIN md THEN md[k]
            ELSE CASE k = "institution" -> "NCAS"
                   [] k = "title" -> "2D Sonic NetCDF file"
                   [] k = "time_coverage_start" -> Seconds(sonic[1].DateTime)
                   [] k = "time_coverage_end" -> Seconds(sonic[Len(sonic)].DateTime)]]

\* line 210
Closed(ds) == [ds EXCEPT !.state = "closed"]

\* the faults the collaborators of sonic_netcdf can raise: the output path
\* is unwritable (134), the vocabulary has no entry (183), the git lookup
\* fails (197), an attribute is refused (208)
Faults == {"none", "WriteError", "VocabularyError", "ProvenanceError", "AttributeError"}

\* the whole of sonic_netcdf: what it leaves behind and how it ended.
\* cols are the columns of the table on entry; line 141 adds timeoffsets
SonicNetcdf(sonic, cols, md, ds, dsk, fault) ==
    LET stamped == cols \cup {"timeoffsets"}
        ended(res, d, m) ==
            [result |-> res, dataset |-> d, disk |-> "open", metadata |-> m,
             columns |-> stamped]
    IN
    IF fault = "WriteError"
    THEN [result |-> "WriteError", dataset |-> ds, disk |-> dsk, metadata |-> md,
          columns |-> cols]
    ELSE IF LonKey \notin DOMAIN md
    THEN ended("KeyError", Opened(sonic), md)
    ELSE IF LatKey \notin DOMAIN md
    THEN ended("KeyError", WithVar(Opened(sonic), "longitude", <<md[LonKey]>>), md)
    ELSE LET located == WithVar(WithVar(Opened(sonic), "longitude", <<md[LonKey]>>),
                                "latitude", <<md[LatKey]>>)
             rest == Pop(Pop(md, LonKey), LatKey)
             speeds == IF "r" \in cols THEN WithPolar(located, sonic) ELSE located
             winds == IF "U" \in cols THEN WithCartesian(speeds, sonic) ELSE speeds
         IN  CASE fault = "VocabularyError" /\ "r" \in cols -> ended(fault, located, rest)
               [] fault = "VocabularyError" /\ "r" \notin cols -> ended(fault, speeds, rest)
               [] fault = "ProvenanceError" -> ended(fault, winds, rest)
               [] fault = "AttributeError" -> ended(fault, winds, rest)
               [] fault = "none" ->
                    [result |-> "ok", dataset |-> Closed(WithAttrs(winds, sonic, rest)),
                     disk |-> "finalized", metadata |-> rest, columns |-> stamped]

\* ------------------------------------------------------------------- state
VARIABLES
    pc,             \* where the run is: "constructed", "loop", "file", "returned", "raised"
    error,          \* the exception that ended get_sonic_data, "" if none
    sonic,          \* the merged table: a sequence of rows
    columns,        \* the names of its columns
    memory_file,    \* the cleaned buffer of the file being read
    line,           \* the line the loop body last saw (0: outside the loop)
    nfiles,         \* files opened so far
    nlines,         \* lines read so far, over all files
    taken,          \* per file opened, the accepted lines in the order read
    raw_metadata,   \* self.raw_metadata
    loaded,         \* the metadata as the constructor loaded it
    dataset,        \* self.dataset
    disk,           \* the file at the output path: "absent", "open", "finalized"
    result          \* how the last sonic_netcdf call ended, "" before any

vars == <<pc, error, sonic, columns, memory_file, line, nfiles, nlines, taken,
          raw_metadata, loaded, dataset, disk, result>>

writerVars == <<raw_metadata, loaded, dataset, disk, result>>

Init ==
    /\ pc = "constructed"
    /\ error = ""
    /\ sonic = <<>>
    /\ columns = {}
    /\ memory_file = <<>>
    /\ line = 0
    /\ nfiles = 0
    /\ nlines = 0
    /\ taken = <<>>
    /\ raw_metadata \in MetadataChoices
    /\ loaded = raw_metadata
    /\ dataset = NoDataset
    /\ disk = "absent"
    /\ result = ""

\* line 66: get_sonic_data is entered
GetSonicData ==
    /\ pc = "constructed"
    /\ pc' = "loop"
    /\ sonic' = <<>>
    /\ columns' = {}
    /\ UNCHANGED <<error, memory_file, line, nfiles, nlines, taken>>
    /\ UNCHANGED writerVars

\* lines 67-72: the next input file is opened, with a fresh buffer
OpenFile ==
    /\ pc = "loop"
    /\ nfiles < MaxFiles
    /\ pc' = "file"
    /\ memory_file' = <<>>
    /\ line' = 0
    /\ nfiles' = nfiles + 1
    /\ taken' = Append(taken, <<>>)
    /\ UNCHANGED <<error, sonic, columns, nlines>>
    /\ UNCHANGED writerVars

\* lines 73-76: the loop body on the next line of the file; a line that
\* lacks its LF is the last of its file
ReadLine(id) ==
    /\ pc = "file"
    /\ nlines < MaxLines
    /\ IF line = 0 THEN TRUE ELSE Terminated(SampleLines[line])
    /\ line' = id
    /\ nlines' = nlines + 1
    /\ memory_file' = WriteLine(memory_file, SampleLines[id])
    /\ taken' = [taken EXCEPT ![Len(taken)] =
                    IF Accept(SampleLines[id]) THEN Append(@, id) ELSE @]
    /\ UNCHANGED <<pc, error, sonic, columns, nfiles>>
    /\ UNCHANGED writerVars

\* lines 79-92 on a buffer that holds records; the loop over the file has
\* ended and its line is not read again
ParseFile ==
    /\ pc = "file"
    /\ Records(memory_file) # <<>>
    /\ LET parsed == read_csv(memory_file) IN
         IF parsed.ok
         THEN /\ sonic' = Concat(sonic, MapSeq(parsed.rows, Transformed))
              /\ columns' = columns \cup ParsedColumns
              /\ pc' = "loop"
              /\ error' = error
         ELSE /\ pc' = "raised"
              /\ error' = "ValueError"
              /\ UNCHANGED <<sonic, columns>>
    /\ line' = 0
    /\ UNCHANGED <<memory_file, nfiles, nlines, taken>>
    /\ UNCHANGED writerVars

\* lines 79-92 on an empty buffer.  What read_csv makes of no data at all,
\* with names and usecols given, is the parser library's own affair and
\* differs between its releases: an empty table with the named columns, or
\* an exception (none of the named columns exists, or no columns to parse)
ParseEmptyFile(raises) ==
    /\ pc = "file"
    /\ Records(memory_file) = <<>>
    /\ IF raises
       THEN /\ pc' = "raised"
            /\ error' = "EmptyData"
            /\ UNCHANGED <<sonic, columns>>
       ELSE /\ pc' = "loop"
            /\ error' = error
            /\ sonic' = Concat(sonic, <<>>)
            /\ columns' = columns \cup ParsedColumns
    /\ line' = 0
    /\ UNCHANGED <<memory_file, nfiles, nlines, taken>>
    /\ UNCHANGED writerVars

\* lines 95-98: the time coverage is read off the first and last row, which
\* an empty table does not have
Return ==
    /\ pc = "loop"
    /\ IF sonic = <<>>
       THEN pc' = "raised" /\ error' = "IndexError"
       ELSE pc' = "returned" /\ error' = error
    /\ UNCHANGED <<sonic, columns, memory_file, line, nfiles, nlines, taken>>
    /\ UNCHANGED writerVars

\* lines 134-210: one call of sonic_netcdf on the returned table
sonic_netcdf(fault) ==
    /\ pc = "returned"
    /\ LET out == SonicNetcdf(sonic, columns, raw_metadata, dataset, disk, fault) IN
         /\ result' = out.result
         /\ columns' = out.columns
         /\ dataset' = out.dataset
         /\ disk' = out.disk
         /\ raw_metadata' = out.metadata
    /\ UNCHANGED loaded
    /\ UNCHANGED <<pc, error, sonic, memory_file, line, nfiles, nlines, taken>>

Next ==
    \/ GetSonicData
    \/ OpenFile
    \/ \E id \in LineIds : ReadLine(id)
    \/ ParseFile
    \/ \E raises \in BOOLEAN : ParseEmptyFile(raises)
    \/ Return
    \/ \E fault \in Faults : sonic_netcdf(fault)

Spec == Init /\ [][Next]_vars

\* ------------------------------------------------------------------ claims
\* the line the loop body has just been given, in a step that reads one
Reading == pc = "file" /\ nlines' = nlines + 1
Given == SampleLines[line']

Last7(l) == SubSeq(l, Len(l) - 6, Len(l))
AcceptedEnd == <<77, 44, 48, 48, 44, ETX, LF>>

\* C1: a line of exactly 77 bytes whose last 7 bytes are not 'M,00,' ETX
\* and the line terminator leaves the cleaned buffer as it was.
C1_WrongTailRejected ==
    [][(Reading /\ Len(Given) = FrameLen /\ Last7(Given) # AcceptedEnd)
          => memory_file' = memory_file]_vars

InRange(t) == ~t.nan /\ (~t.neg \/ t.mag = 0) /\ t.mag < FullTurn

\* C2: every direction computed in degree mode from a non-missing (U, V)
\* satisfies 0 <= direction < 360.
C2_DirectionInRange ==
    \A i \in 1..Len(sonic) :
        (~sonic[i].U.nan /\ ~sonic[i].V.nan) => InRange(sonic[i].theta)

\* the lines that iterating a buffer as a file yields: each ends with its
\* LF, but for a last one that has none
RECURSIVE FileLines(_)
FileLines(buffer) ==
    IF buffer = <<>> THEN <<>>
    ELSE LET at == {i \in 1..Len(buffer) : buffer[i] = LF} IN
         IF at = {} THEN <<buffer>>
         ELSE <<SubSeq(buffer, 1, Least(at))>>
                \o FileLines(SubSeq(buffer, Least(at) + 1, Len(buffer)))

RECURSIVE Validated(_)
Validated(ls) ==
    IF ls = <<>> THEN <<>>
    ELSE WriteLine(Validated(SubSeq(ls, 1, Len(ls) - 1)), ls[Len(ls)])

\* validation of a whole buffer, then parsing and transforming
SamplesOf(buffer) == MapSeq(read_csv(buffer).rows, Transformed)
Revalidated(buffer) == Validated(FileLines(buffer))

HasMarker(l) == Occurrences(l, Marker) # {}

RECURSIVE Flat(_)
Flat(ss) == IF ss = <<>> THEN <<>> ELSE Head(ss) \o Flat(Tail(ss))

CurrentTaken == taken[Len(taken)]
Unmarked == SelectSeq(CurrentTaken, LAMBDA id : ~HasMarker(SampleLines[id]))

\* the row an accepted line stands for
RowOf(id) ==
    LET l == SampleLines[id]
        rec == Remove(IF Terminated(l) THEN SubSeq(l, 1, Len(l) - 1) ELSE l, Marker)
    IN  Transformed(ParsedRow(rec))

\* C3 as stated: validating and parsing the cleaned buffer again yields the
\* samples that validating and parsing the raw file yields.
C3_Idempotent ==
    pc = "file" => SamplesOf(Revalidated(memory_file)) = SamplesOf(memory_file)

\* C3 as amended: validating the cleaned buffer again keeps exactly the
\* accepted lines that held no framing marker, and yields their samples.
C3_SecondPassKeepsUnmarked ==
    pc = "file" =>
        LET again == Revalidated(memory_file) IN
        /\ again = Flat(MapSeq(Unmarked, LAMBDA id : SampleLines[id]))
        /\ (Records(again) # <<>> /\ read_csv(again).ok) =>
              SamplesOf(again) = MapSeq(Unmarked, RowOf)

C3_Witness ==
    /\ pc = "file"
    /\ Len(CurrentTaken) = 2
    /\ Len(Unmarked) = 1
    /\ Len(SamplesOf(memory_file)) = 2
    /\ Len(SamplesOf(Revalidated(memory_file))) = 1

\* C5: whenever a call of sonic_netcdf has returned, normally or not, the
\* dataset handle is closed.
C5_ClosedOnReturn == result # "" => dataset.state # "open"

\* C6: a call that fails because the site metadata lacks a reserved key
\* leaves no output file at the output path.
C6_NoFileOnLookupFailure ==
    (result = "KeyError" /\ {LatKey, LonKey} \ DOMAIN loaded # {}) => disk = "absent"

ClaimedAllowed ==
    (48..57) \cup {58, 32, LF, 85, 84, 67, 81, 77, 43, 44, 46, 45, STX, ETX}

\* C7: a line whose length is not 77, or that holds a byte outside the
\* allowed set, leaves the cleaned buffer unchanged, raises nothing, and the
\* loop goes on to the rest of the file.
C7_MalformedDropped ==
    [][(Reading /\ (Len(Given) # FrameLen
                     \/ \E i \in 1..Len(Given) : Given[i] \notin ClaimedAllowed))
          => (memory_file' = memory_file /\ error' = error /\ pc' = "file")]_vars

C7_Witness ==
    /\ pc = "file"
    /\ line # 0
    /\ Len(SampleLines[line]) # FrameLen
    /\ Len(CurrentTaken) = 1
    /\ memory_file = Cleaned(SampleLines[CurrentTaken[1]])

\* the two axis readings as the raw lines spell them
RawAxis(id, col) == ToFloat(Column(SampleLines[id], col))

Opposite(x, y) == ~x.nan /\ ~y.nan /\ x.mag = y.mag /\ x.neg # y.neg

Written(name) == name \in DOMAIN dataset.vars

\* C8: for every accepted line with readings a and b the merged table has
\* U = -a and V = b, its speed and direction are those of that (U, V), and
\* what sonic_netcdf writes as eastward and northward wind is that U and V.
C8_InvertedOnce ==
    pc = "returned" =>
        /\ Len(sonic) = Len(Flat(taken))
        /\ \A i \in 1..Len(sonic) :
              /\ Opposite(sonic[i].U, RawAxis(Flat(taken)[i], 3))
              /\ sonic[i].V = RawAxis(Flat(taken)[i], 4)
              /\ sonic[i].r = polar(sonic[i].U, sonic[i].V).r
              /\ sonic[i].theta = polar(sonic[i].U, sonic[i].V).theta
        /\ Written("eastward_wind") =>
              dataset.vars["eastward_wind"] = [i \in 1..Len(sonic) |-> sonic[i].U]
        /\ Written("northward_wind") =>
              dataset.vars["northward_wind"] = [i \in 1..Len(sonic) |-> sonic[i].V]

C8_Witness ==
    /\ pc = "returned"
    /\ result = "ok"
    /\ Len(sonic) = 2
    /\ sonic[1].UGILL.mag > 0
    /\ Written("eastward_wind")

\* C9: the table is the concatenation, in file order, of each file's
\* accepted rows in line order, so its length is the sum of theirs.
C9_OrderedConcatenation ==
    pc \in {"loop", "returned"} =>
        sonic = MapSeq(Flat(taken), RowOf)

C9_Witness ==
    /\ pc = "returned"
    /\ Len(taken) = 2
    /\ Len(taken[1]) = 1
    /\ Len(taken[2]) = 1
    /\ taken[1] # taken[2]
    /\ Len(sonic) = 2

\* C10: the metadata mapping of the instance is the one that was loaded.
C10_MetadataUnchanged == raw_metadata = loaded

====
